---- MODULE Spec2Model ----
(***************************************************************************)
(* The WhatsApp bot: the CircuitBreaker state machine and the              *)
(* retry_with_backoff decorator of src/error_handler.py, the conversation  *)
(* history kept by whatsapp_webhook of src/main.py, and the tool loop      *)
(* chat_with_tools of src/mcp_client.py.                                   *)
(*                                                                         *)
(* Time is a discrete clock `now` (one unit = one second of                *)
(* datetime.now()).  Callers are concurrent invocations running on one     *)
(* asyncio event loop: a coroutine is suspended only while its operation   *)
(* is awaited or while it sleeps, and a synchronous call suspends every    *)
(* other caller until it returns.  Operations raise subclasses of          *)
(* Exception only.                                                         *)
(***************************************************************************)
EXTENDS Integers, Sequences, FiniteSets, TLC

VARIABLES
    breaker,    \* the CircuitBreaker object: its five fields
    policy,     \* the arguments of the retry_with_backoff decorator
    frames,     \* per caller: the activation of call / call_async / a wrapper
    now,        \* datetime.now()
    streak,     \* observer: failing operations through the breaker since the last success
    conversation_history,   \* main.conversation_history: per user, the stored turns
    active_accounts,        \* main.active_accounts: per user, the account chosen by command
    active_account,         \* mcp_client.active_account, one attribute for all requests
    max_turns,              \* the max_turns argument of chat_with_tools
    requests,   \* per request: the activation of whatsapp_webhook and its chat_with_tools
    running,    \* the request the event loop is executing, 0 when all are suspended
    received,   \* observer: chat messages received so far, the identity of the next one
    appended,   \* observer: per user, every turn ever appended to the history, in order
    error_stats,    \* main.error_stats
    last_response,  \* observer: the latest answer of the webhook
    call        \* one call of a function without state: its arguments and its result

resilience == <<breaker, policy, frames, now, streak>>
outcome == <<error_stats, last_response>>
chat == <<conversation_history, active_accounts, active_account, max_turns,
          requests, running, received, appended, error_stats, last_response>>
vars == <<breaker, policy, frames, now, streak, conversation_history, active_accounts,
          active_account, max_turns, requests, running, received, appended,
          error_stats, last_response, call>>

\* ------------------------------------------------------------------ bounds
NCallers == 2
MaxTime == 7            \* horizon of the clock for calls of a decorated function
MaxBreakerTime == 4     \* horizon of the clock for direct calls of the breaker
MaxThreshold == 2
MaxTimeout == 2
MaxRetriesBound == 3
MaxInitialDelay == 1
MaxBase == 2
NRequests == 2          \* webhook requests in flight at once
MaxTurns == 5           \* largest max_turns of a chat_with_tools call on its own
MaxLoopMessages == 2    \* ... and the messages received in such a run
MaxConcurrentTurns == 1 \* largest max_turns of concurrent chat_with_tools calls
MaxReceived == 3        \* ... and the messages received in such a run
MaxSequential == 7      \* messages received in a run of one conversation

Callers == 1..NCallers
Requests == 1..NRequests

\* ------------------------------------------------------- exception classes
\* An exception value is named by its class, except the circuit-open
\* rejection, a plain BotError carrying the "Circuit breaker OPEN" message.
CircuitOpen == "CircuitOpen"

ClassOf(e) == IF e = CircuitOpen THEN "BotError" ELSE e

Base(cls) ==
    CASE cls = "APIError" -> "BotError"
      [] cls = "TranscriptionError" -> "BotError"
      [] cls = "ImageProcessingError" -> "BotError"
      [] cls = "AuthenticationError" -> "BotError"
      [] cls = "RateLimitError" -> "BotError"
      [] cls = "OperationTimeoutError" -> "BotError"
      [] cls = "BotError" -> "Exception"
      [] cls = "TypeError" -> "Exception"
      [] cls = "ValueError" -> "Exception"
      [] cls = "KeyError" -> "Exception"
      [] cls = "TimeoutError" -> "Exception"
      [] cls = "ConnectionError" -> "Exception"
      [] cls = "HTTPError" -> "Exception"
      [] cls = "APIConnectionError" -> "Exception"
      [] OTHER -> "object"

RECURSIVE Ancestors(_)
Ancestors(cls) == IF cls = "object" THEN {} ELSE {cls} \cup Ancestors(Base(cls))

IsInstance(e, classes) == Ancestors(ClassOf(e)) \cap classes # {}

\* What the wrapped operation may raise.
OperationErrors == {"APIError", "TranscriptionError"}

\* ----------------------------------------------------------- CircuitBreaker
None == <<>>

NewBreaker(threshold, to) ==
    [failure_threshold |-> threshold,
     timeout |-> to,
     failure_count |-> 0,
     last_failure_time |-> None,
     state |-> "CLOSED"]

\* datetime.now() - self.last_failure_time > timedelta(seconds=self.timeout)
TimeoutElapsedNever(b, t) == FALSE
TimeoutElapsedLoose(b, t) == t - b.last_failure_time[1] >= b.timeout
TimeoutElapsed(b, t) == t - b.last_failure_time[1] > b.timeout

\* The test that opens call / call_async: how the call is received.
Admission(b, t) ==
    IF b.state = "OPEN"
    THEN IF b.last_failure_time = None THEN "TypeError"
         ELSE IF TimeoutElapsed(b, t) THEN "half_open" ELSE "reject"
    ELSE "pass"

AdmitStaysOpen(b, adm) == b
AdmitAndReset(b, adm) ==
    IF adm = "half_open" THEN [b EXCEPT !.state = "HALF_OPEN", !.failure_count = 0] ELSE b
Admit(b, adm) == IF adm = "half_open" THEN [b EXCEPT !.state = "HALF_OPEN"] ELSE b

\* The operation returned.
OnSuccessKeepsCount(b) == IF b.state = "HALF_OPEN" THEN [b EXCEPT !.state = "CLOSED"] ELSE b
OnSuccessUnlessClosed(b) ==
    IF b.state # "CLOSED" THEN [b EXCEPT !.state = "CLOSED", !.failure_count = 0] ELSE b
OnSuccessAlwaysReset(b) == [b EXCEPT !.state = "CLOSED", !.failure_count = 0]
OnSuccess(b) ==
    IF b.state = "HALF_OPEN"
    THEN [b EXCEPT !.state = "CLOSED", !.failure_count = 0]
    ELSE b

\* The operation raised at time t.
OnFailureNoStamp(b, t) ==
    LET n == b.failure_count + 1
    IN  [b EXCEPT !.failure_count = n,
                  !.state = IF n >= b.failure_threshold THEN "OPEN" ELSE @]
OnFailureStrict(b, t) ==
    LET n == b.failure_count + 1
    IN  [b EXCEPT !.failure_count = n,
                  !.last_failure_time = <<t>>,
                  !.state = IF n > b.failure_threshold THEN "OPEN" ELSE @]
OnFailureOnlyFromClosed(b, t) ==
    LET n == b.failure_count + 1
    IN  [b EXCEPT !.failure_count = n,
                  !.last_failure_time = <<t>>,
                  !.state = IF n >= b.failure_threshold /\ @ = "CLOSED" THEN "OPEN" ELSE @]
OnFailureCountsTwice(b, t) ==
    LET n == b.failure_count + 2
    IN  [b EXCEPT !.failure_count = n,
                  !.last_failure_time = <<t>>,
                  !.state = IF n >= b.failure_threshold THEN "OPEN" ELSE @]
OnFailure(b, t) ==
    LET n == b.failure_count + 1
    IN  [b EXCEPT !.failure_count = n,
                  !.last_failure_time = <<t>>,
                  !.state = IF n >= b.failure_threshold THEN "OPEN" ELSE @]

\* The registry of breakers: one modelled entry.
BreakerNames == {"whisper"}

\* --------------------------------------------------------- retry_with_backoff
RECURSIVE Pow(_, _)
Pow(b, n) == IF n = 0 THEN 1 ELSE b * Pow(b, n - 1)

\* delay = initial_delay * (exponential_base ** attempt)
DelayShifted(p, attempt) == p.initial_delay * Pow(p.exponential_base, attempt + 1)
Delay(p, attempt) == p.initial_delay * Pow(p.exponential_base, attempt)

NewPolicy(mr, d, base, exc, name) ==
    [max_retries |-> mr,
     initial_delay |-> d,
     exponential_base |-> base,
     exceptions |-> exc,
     circuit_breaker_name |-> name]

\* circuit_breaker_name and circuit_breaker_name in circuit_breakers
UsesBreakerNever(p) == FALSE
UsesBreaker(p) ==
    p.circuit_breaker_name # "None" /\ p.circuit_breaker_name \in BreakerNames

\* --------------------------------------------------------------- activations
DirectVias == {"call", "call_async"}
WrapperVias == {"sync_wrapper", "async_wrapper"}
SyncVias == {"call", "sync_wrapper"}

IdleFrame ==
    [pc |-> "idle",
     via |-> "none",
     attempt |-> 0,
     last_exception |-> "None",
     result |-> "None",
     raised |-> "None",     \* observer: the exception the latest attempt ended with
     invoked |-> 0,         \* observer: invocations of the operation so far
     returned |-> 0,        \* observer: invocations that returned normally
     delays |-> <<>>,       \* observer: the delays slept so far
     wake_at |-> 0,
     entered |-> "-"]       \* observer: breaker state the last invocation was admitted in

ThroughDirectOnly(v) == v \in DirectVias
Through(v) == v \in DirectVias \/ UsesBreaker(policy)

\* The operation is invoked.
Invoke(f, st) ==
    [f EXCEPT !.pc = "running", !.invoked = @ + 1, !.entered = st, !.raised = "None"]

\* The operation returned: every path returns its result at once.
Returned(f) == [f EXCEPT !.pc = "done", !.result = "return", !.returned = @ + 1]

\* An exception leaves the activation.
Propagate(f, e) == [f EXCEPT !.pc = "done", !.result = e]

\* The except clause of the wrappers, and the raise after the loop.
HandlerRetriesAll(f, e, p, t) ==
    LET g == [f EXCEPT !.last_exception = e]
    IN  IF g.attempt < p.max_retries
        THEN [g EXCEPT !.pc = "sleeping",
                       !.delays = Append(@, Delay(p, g.attempt)),
                       !.wake_at = t + Delay(p, g.attempt),
                       !.entered = "-"]
        ELSE Propagate(g, g.last_exception)
HandlerKeepsFirst(f, e, p, t) ==
    IF IsInstance(e, p.exceptions)
    THEN LET g == [f EXCEPT !.last_exception = IF @ = "None" THEN e ELSE @]
         IN  IF g.attempt < p.max_retries
             THEN [g EXCEPT !.pc = "sleeping",
                            !.delays = Append(@, Delay(p, g.attempt)),
                            !.wake_at = t + Delay(p, g.attempt),
                            !.entered = "-"]
             ELSE Propagate(g, g.last_exception)
    ELSE Propagate(f, e)
HandlerOffByOne(f, e, p, t) ==
    IF IsInstance(e, p.exceptions)
    THEN LET g == [f EXCEPT !.last_exception = e]
         IN  IF g.attempt <= p.max_retries
             THEN [g EXCEPT !.pc = "sleeping",
                            !.delays = Append(@, Delay(p, g.attempt)),
                            !.wake_at = t + Delay(p, g.attempt),
                            !.entered = "-"]
             ELSE Propagate(g, g.last_exception)
    ELSE Propagate(f, e)
Handler(f, e, p, t) ==
    IF IsInstance(e, p.exceptions)
    THEN LET g == [f EXCEPT !.last_exception = e]
         IN  IF g.attempt < p.max_retries
             THEN [g EXCEPT !.pc = "sleeping",
                            !.delays = Append(@, Delay(p, g.attempt)),
                            !.wake_at = t + Delay(p, g.attempt),
                            !.entered = "-"]
             ELSE Propagate(g, g.last_exception)
    ELSE Propagate(f, e)

\* An attempt ended with exception e at time t.
Failed(f, e, p, t) ==
    LET g == [f EXCEPT !.raised = e]
    IN  IF g.via \in WrapperVias THEN Handler(g, e, p, t) ELSE Propagate(g, e)

\* One attempt up to the invocation of the operation.
AttemptRejectionCounts(f, b, p, t) ==
    IF Through(f.via)
    THEN LET adm == Admission(b, t)
         IN  IF adm = "reject"
             THEN [frame |-> Failed(f, CircuitOpen, p, t), breaker |-> OnFailure(b, t)]
             ELSE IF adm = "TypeError"
                  THEN [frame |-> Failed(f, "TypeError", p, t), breaker |-> b]
                  ELSE [frame |-> Invoke(f, Admit(b, adm).state), breaker |-> Admit(b, adm)]
    ELSE [frame |-> Invoke(f, "-"), breaker |-> b]
Attempt(f, b, p, t) ==
    IF Through(f.via)
    THEN LET adm == Admission(b, t)
         IN  IF adm = "reject" THEN [frame |-> Failed(f, CircuitOpen, p, t), breaker |-> b]
             ELSE IF adm = "TypeError"
                  THEN [frame |-> Failed(f, "TypeError", p, t), breaker |-> b]
                  ELSE [frame |-> Invoke(f, Admit(b, adm).state), breaker |-> Admit(b, adm)]
    ELSE [frame |-> Invoke(f, "-"), breaker |-> b]

\* One event loop: a synchronous activation lets nobody else run.
CanRun(c) ==
    \A d \in Callers \ {c} :
        ~(frames[d].via \in SyncVias /\ frames[d].pc \in {"running", "sleeping"})

\* ------------------------------------------------------ format_error_for_user
\* An error instance: its class, its message str(error), given by the set of
\* markers the lower-cased message contains, and, for a BotError, its
\* user_message.  A text is a sequence of segments, the empty text <<>>;
\* None is <<>> as well, both being false.
BotErrorClasses ==
    {"BotError", "APIError", "TranscriptionError", "ImageProcessingError",
     "AuthenticationError", "RateLimitError", "OperationTimeoutError"}
OtherErrorClasses ==
    {"TimeoutError", "ConnectionError", "HTTPError", "ValueError", "KeyError",
     "APIConnectionError"}

Markers ==
    {"rate limit", "429", "timeout", "timed out", "authentication", "unauthorized",
     "401", "not found", "404"}

DefaultUserMessage == <<"Sorry, I encountered an error. Please try again.">>

\* BotError.__init__: self.user_message = user_message or the default.
NewBotError(cls, message, user_message) ==
    [cls |-> cls,
     message |-> message,
     user_message |-> IF user_message = <<>> THEN DefaultUserMessage ELSE user_message]

\* An exception of another class: no user_message attribute.
PlainError(cls, message) == [cls |-> cls, message |-> message]

\* error_mappings
ErrorMappings ==
    [OperationTimeoutError |-> <<"The request took too long. Please try again.">>,
     TimeoutError |-> <<"The request took too long. Please try again.">>,
     ConnectionError |-> <<"Connection failed. Please check your internet and try again.">>,
     HTTPError |-> <<"External service error. Please try again in a moment.">>,
     RateLimitError |-> <<"Too many requests. Please wait a minute and try again.">>,
     AuthenticationError |-> <<"Authentication failed. Please contact support.">>,
     TranscriptionError |-> <<"Could not transcribe audio. Please try sending text instead.">>,
     ImageProcessingError |-> <<"Could not process image. Try sending a smaller image.">>]

RateLimitText == <<"Rate limit reached. Please wait a moment and try again.">>
TimedOutText == <<"Request timed out. Please try again.">>
AuthenticationText == <<"Authentication error. Please try again or contact support.">>
NotFoundText == <<"Resource not found. Please check your request and try again.">>
GenericText == <<"Something went wrong. Please try again or contact support if the issue persists.">>
ContextText(context) ==
    <<"Error ", context, ". Please try again or contact support if the issue persists.">>

\* The function after its first test: patterns of the message, then the
\* table by class name, then the generic messages.
FormatByPattern(error, context) ==
    IF error.message \cap {"rate limit", "429"} # {} THEN RateLimitText
    ELSE IF error.message \cap {"timeout", "timed out"} # {} THEN TimedOutText
    ELSE IF error.message \cap {"authentication", "unauthorized", "401"} # {}
         THEN AuthenticationText
    ELSE IF error.message \cap {"not found", "404"} # {} THEN NotFoundText
    ELSE IF error.cls \in DOMAIN ErrorMappings THEN ErrorMappings[error.cls]
    ELSE IF context # "" THEN ContextText(context)
    ELSE GenericText

\* format_error_for_user(error, context)
FormatErrorForUserEmpty(error, context) ==
    IF IsInstance(error.cls, {"BotError"}) THEN <<>> ELSE FormatByPattern(error, context)
FormatErrorForUser(error, context) ==
    IF IsInstance(error.cls, {"BotError"}) /\ error.user_message # <<>>
    THEN error.user_message
    ELSE FormatByPattern(error, context)

\* ------------------------------------------------- whatsapp_webhook pipeline
Users == {"u1", "u2"}
Accounts == {"work", "personal"}

\* len(conversation_history[user_id]) > 10
Window == 10

UserTurn(id) == [role |-> "user", id |-> id, content |-> <<"body">>]
AssistantTurn(id, text) == [role |-> "assistant", id |-> id, content |-> text]

\* conversation_history[user_id] = conversation_history[user_id][-10:]
TrimKeepsOldest(h) == IF Len(h) > Window THEN SubSeq(h, 1, Window) ELSE h
Trim(h) == IF Len(h) > Window THEN SubSeq(h, Len(h) - Window + 1, Len(h)) ELSE h

\* active_accounts.get(user_id, "personal")
AccountOf(u) == IF active_accounts[u] = "unset" THEN "personal" ELSE active_accounts[u]

\* `not token`: None or the empty string.
Falsy(token) == token \in {"None", ""}

\* The token fields set by initialize from the two secrets and the
\* environment variable GOOGLE_OAUTH_TOKEN.
InitializeTokens(secret_work, secret_personal, env) ==
    [work |-> secret_work,
     personal |-> secret_personal,
     legacy |-> IF Falsy(secret_work) THEN env ELSE secret_work]

\* The tokens of the running bot: both accounts configured.
GoogleTokens == InitializeTokens("token-work", "token-personal", "None")

\* The fallback chain started from the personal token whatever the account.
GetActiveGoogleTokenPersonalFirst(attr, tk) ==
    LET orWork == IF Falsy(tk.personal) THEN tk.work ELSE tk.personal
    IN  IF Falsy(orWork) THEN tk.legacy ELSE orWork

\* _get_active_google_token: the token of the account in self.active_account,
\* else the work token, else the legacy token; the value is returned as it is.
GetActiveGoogleToken(attr, tk) ==
    LET active == IF attr = "unset" THEN "personal" ELSE attr
        chosen == IF active = "work" THEN tk.work ELSE tk.personal
        orWork == IF Falsy(chosen) THEN tk.work ELSE chosen
    IN  IF Falsy(orWork) THEN tk.legacy ELSE orWork

\* Content blocks of a model response; a text is a sequence of segments.
Text(t) == [type |-> "text", text |-> <<t>>, id |-> "-", name |-> "-", input |-> "-"]
ToolUse(i, n, in) == [type |-> "tool_use", text |-> <<>>, id |-> i, name |-> n, input |-> in]

\* What anthropic_client.messages.create may return: a final answer, an
\* answer cut at max_tokens inside a tool request, or tool requests.
ModelResponses ==
    { [stop_reason |-> "end_turn", content |-> <<Text("a"), Text("b")>>],
      [stop_reason |-> "max_tokens",
       content |-> <<Text("a"), ToolUse("toolu_4", "gmail_search", "valid"), Text("b")>>],
      [stop_reason |-> "tool_use",
       content |-> <<Text("a"),
                     ToolUse("toolu_1", "no_such_tool", "valid"),
                     ToolUse("toolu_2", "gmail_search", "max_results not a number"),
                     ToolUse("toolu_3", "gmail_reply", "valid")>>] }

\* The names execute_tool dispatches on: two of them.
RegisteredTools == {"gmail_search", "gmail_reply"}

\* What execute_tool returns without awaiting anything: the payload for a
\* name it does not know, and the payload its except clause makes of the
\* TypeError that _gmail_search raises on min(max_results, 20).
UnknownToolPayload == [error |-> "Unknown tool"]
RaisedPayload(e) == [error |-> e]
ExecuteToolAtOnce(b) ==
    IF b.name \notin RegisteredTools THEN UnknownToolPayload ELSE RaisedPayload("TypeError")

\* What _gmail_reply returns.
GmailPayload(res) ==
    IF res = "success"
    THEN [success |-> TRUE, message |-> "Reply sent"]
    ELSE [success |-> FALSE, error |-> "Gmail API error"]

\* json.dumps(result): the text of the payload.
JsonDumps(payload) == [json |-> payload]

ToolResult(id, payload) ==
    [type |-> "tool_result", tool_use_id |-> id, content |-> JsonDumps(payload)]

\* The call suspends the request: gmail_reply, which awaits its HTTP requests.
Suspends(b) == b.name = "gmail_reply"

\* ... or raise.
ModelErrors == {PlainError("APIConnectionError", {})}

\* The concatenation of the text blocks of a response.
RECURSIVE TextContentAllBlocks(_)
TextContentAllBlocks(content) ==
    IF content = <<>> THEN <<>>
    ELSE (IF Head(content).type = "text" THEN Head(content).text ELSE <<Head(content).name>>)
            \o TextContentAllBlocks(Tail(content))
RECURSIVE TextContent(_)
TextContent(content) ==
    IF content = <<>> THEN <<>>
    ELSE (IF Head(content).type = "text" THEN Head(content).text ELSE <<>>)
            \o TextContent(Tail(content))

Apology == <<"I apologize, but I'm having trouble completing that request. Please try again.">>

\* circuit_breakers["claude"]
ClaudeBreaker == NewBreaker(5, 60)

IdleRequest ==
    [pc |-> "idle",
     user |-> "-",
     id |-> 0,                  \* observer: the message this request carries
     account |-> "-",           \* the active_account argument of chat_with_tools
     current_messages |-> <<>>,
     turn |-> 0,
     response |-> None,
     block |-> 0,               \* position in response.content
     stage |-> "-",             \* the HTTP request a suspended tool call waits for
     tool_results |-> <<>>,
     result |-> None,
     model_calls |-> 0,         \* observer: calls of messages.create
     finals |-> 0,              \* observer: responses whose stop_reason is not tool_use
     used |-> {}]               \* observer: the tokens resolved by the tool calls

InFlight(q) == q.pc # "idle"

\* error_stats at startup; error_by_type holds 0 where the dict has no key.
ErrorKinds == BotErrorClasses \cup OtherErrorClasses
NoErrors ==
    [total_errors |-> 0,
     last_error |-> None,
     error_by_type |-> [k \in ErrorKinds |-> 0]]

\* The except clauses of the webhook: one more error of the class of e.
TrackErrorNoTotal(stats, e, request_id, t) ==
    [stats EXCEPT !.error_by_type[e.cls] = @ + 1,
                  !.last_error = <<[type |-> e.cls, message |-> e.message,
                                    timestamp |-> t, request_id |-> request_id]>>]
TrackError(stats, e, request_id, t) ==
    [total_errors |-> stats.total_errors + 1,
     error_by_type |-> [stats.error_by_type EXCEPT ![e.cls] = @ + 1],
     last_error |-> <<[type |-> e.cls, message |-> e.message,
                       timestamp |-> t, request_id |-> request_id]>>]

\* The outermost except clause: the record of the error carries the user as
\* well (and the duration of the request, a quantity of the log only).
TrackFatalError(stats, e, request_id, t, u) ==
    LET tracked == TrackError(stats, e, request_id, t)
        rec == tracked.last_error[1]
    IN  [tracked EXCEPT !.last_error =
            <<[type |-> rec.type, message |-> rec.message, timestamp |-> rec.timestamp,
               request_id |-> rec.request_id, user_id |-> u]>>]

NoResponse == [request_id |-> 0, user |-> "-", error |-> None, body |-> <<>>]
Response(id, u, e, body) == [request_id |-> id, user |-> u, error |-> e, body |-> body]

\* No call of a function without state.
NoCall == [fn |-> "none"]

InitIdleChat ==
    /\ conversation_history = [u \in Users |-> <<>>]
    /\ active_accounts = [u \in Users |-> "unset"]
    /\ active_account = "unset"
    /\ requests = [r \in Requests |-> IdleRequest]
    /\ running = 0
    /\ received = 0
    /\ appended = [u \in Users |-> <<>>]
    /\ error_stats = NoErrors
    /\ last_response = NoResponse

\* ------------------------------------------------------------------ actions
Policies ==
    { NewPolicy(mr, d, base, exc, name) :
        mr \in 0..MaxRetriesBound, d \in 1..MaxInitialDelay, base \in 1..MaxBase,
        exc \in {{"Exception"}, {"APIError"}}, name \in {"None", "whisper"} }

DefaultPolicy == NewPolicy(3, 1, 2, {"Exception"}, "None")

InitCommon ==
    /\ breaker \in { NewBreaker(T, to) : T \in 1..MaxThreshold, to \in 1..MaxTimeout }
    /\ frames = [c \in Callers |-> IdleFrame]
    /\ now = 0
    /\ streak = 0
    /\ InitIdleChat
    /\ max_turns = 5
    /\ call = NoCall

Init == InitCommon /\ policy \in Policies

Start(c, v) ==
    /\ frames[c].pc = "idle"
    /\ CanRun(c)
    /\ LET r == Attempt([IdleFrame EXCEPT !.via = v], breaker, policy, now)
       IN  /\ frames' = [frames EXCEPT ![c] = r.frame]
           /\ breaker' = r.breaker
    /\ UNCHANGED <<policy, now, streak>>
    /\ UNCHANGED <<chat, call>>

Complete(c, out) ==
    /\ frames[c].pc = "running"
    /\ CanRun(c)
    /\ LET f == frames[c]
       IN  /\ frames' = [frames EXCEPT ![c] =
                            IF out = "ok" THEN Returned(f) ELSE Failed(f, out, policy, now)]
           /\ IF Through(f.via)
              THEN /\ breaker' = IF out = "ok" THEN OnSuccess(breaker)
                                                ELSE OnFailure(breaker, now)
                   /\ streak' = IF out = "ok" THEN 0 ELSE streak + 1
              ELSE UNCHANGED <<breaker, streak>>
    /\ UNCHANGED <<policy, now>>
    /\ UNCHANGED <<chat, call>>

Wake(c) ==
    /\ frames[c].pc = "sleeping"
    /\ CanRun(c)
    /\ now >= frames[c].wake_at
    /\ LET r == Attempt([frames[c] EXCEPT !.attempt = @ + 1, !.wake_at = 0], breaker, policy, now)
       IN  /\ frames' = [frames EXCEPT ![c] = r.frame]
           /\ breaker' = r.breaker
    /\ UNCHANGED <<policy, now, streak>>
    /\ UNCHANGED <<chat, call>>

Collect(c) ==
    /\ frames[c].pc = "done"
    /\ frames' = [frames EXCEPT ![c] = IdleFrame]
    /\ UNCHANGED <<breaker, policy, now, streak>>
    /\ UNCHANGED <<chat, call>>

Tick(horizon) ==
    /\ now < horizon
    /\ now' = now + 1
    /\ UNCHANGED <<breaker, policy, frames, streak>>
    /\ UNCHANGED <<chat, call>>

Next ==
    \/ Tick(MaxTime)
    \/ \E c \in Callers :
        \/ \E v \in DirectVias \cup WrapperVias : Start(c, v)
        \/ \E out \in {"ok"} \cup OperationErrors : Complete(c, out)
        \/ Wake(c)
        \/ Collect(c)

Spec == Init /\ [][Next]_vars

\* Direct use of the breaker: call and call_async only.
InitBreaker == InitCommon /\ policy = DefaultPolicy

NextBreaker ==
    \/ Tick(MaxBreakerTime)
    \/ \E c \in Callers :
        \/ \E v \in DirectVias : Start(c, v)
        \/ \E out \in {"ok"} \cup OperationErrors : Complete(c, out)
        \/ Collect(c)

SpecBreaker == InitBreaker /\ [][NextBreaker]_vars

\* Direct use of a breaker whose dependency recovers: the operations may
\* raise before the clock reaches MaxBreakerTime and return from then on,
\* and the clock runs on until the longest timeout has elapsed.  Time
\* passes, callers keep calling and operations in flight complete.
RecoveryCallers == {1, 2}
RecoveryHorizon == MaxBreakerTime + MaxTimeout + 1

NextRecovery ==
    \/ Tick(RecoveryHorizon)
    \/ \E c \in RecoveryCallers :
        \/ \E v \in DirectVias : Start(c, v)
        \/ Complete(c, "ok")
        \/ \E out \in OperationErrors : now < MaxBreakerTime /\ Complete(c, out)
        \/ Collect(c)

SpecRecovery ==
    /\ InitBreaker
    /\ [][NextRecovery]_vars
    /\ WF_vars(Tick(RecoveryHorizon))
    /\ \A c \in RecoveryCallers :
        /\ WF_vars(\E v \in DirectVias : Start(c, v))
        /\ WF_vars(Complete(c, "ok"))
        /\ WF_vars(Collect(c))

\* One call of a decorated function at a time: sync_wrapper and async_wrapper only.
RetryCallers == {1}

NextRetry ==
    \/ Tick(MaxTime)
    \/ \E c \in RetryCallers :
        \/ \E v \in WrapperVias : Start(c, v)
        \/ \E out \in {"ok"} \cup OperationErrors : Complete(c, out)
        \/ Wake(c)
        \/ Collect(c)

InitRetry ==
    /\ InitCommon
    /\ policy \in Policies
    /\ UsesBreaker(policy) \/ breaker = NewBreaker(MaxThreshold, MaxTimeout)

SpecRetry == InitRetry /\ [][NextRetry]_vars

\* Concurrent calls of a coroutine function decorated with one named
\* breaker: every caller runs async_wrapper over the whisper breaker.
SharedPolicies ==
    { NewPolicy(1, 1, 1, exc, "whisper") : exc \in {{"Exception"}, {"APIError"}} }

SharedCallers == {1, 2}

NextShared ==
    \/ Tick(MaxBreakerTime)
    \/ \E c \in SharedCallers :
        \/ Start(c, "async_wrapper")
        \/ \E out \in {"ok"} \cup OperationErrors : Complete(c, out)
        \/ Wake(c)
        \/ Collect(c)

InitShared == InitCommon /\ policy \in SharedPolicies

SpecShared == InitShared /\ [][NextShared]_vars

\* --------------------------------------- whatsapp_webhook and chat_with_tools
\* One event loop: a request runs from one suspension point to the next
\* without any other request running; `running` names it.

\* An account switching command: the webhook records the account and returns.
SwitchAccount(u, a, budget) ==
    /\ running = 0
    /\ received < budget
    /\ active_accounts' = [active_accounts EXCEPT ![u] = a]
    /\ received' = received + 1
    /\ last_response' = Response(received + 1, u, None, <<"Switched to ", a, " account.">>)
    /\ UNCHANGED <<conversation_history, active_account, max_turns, requests, running,
                   appended, error_stats>>
    /\ UNCHANGED <<resilience, call>>

\* A message whose NumMedia is not a number: int(NumMedia) raises ValueError
\* before the history is touched, and the outermost except clause answers.
ReceiveMalformed(u, budget) ==
    /\ running = 0
    /\ received < budget
    /\ LET id == received + 1
           e == PlainError("ValueError", {})
       IN  /\ error_stats' = TrackFatalError(error_stats, e, id, now, u)
           /\ last_response' =
                    Response(id, u, <<e>>, FormatErrorForUser(e, "processing your message"))
           /\ received' = id
    /\ UNCHANGED <<conversation_history, active_accounts, active_account, max_turns,
                   requests, running, appended>>
    /\ UNCHANGED <<resilience, call>>

\* A chat message of user u arrives: the user turn is appended, the history
\* trimmed, and chat_with_tools entered up to its loop.  The activation
\* takes the first free place.
Receive(r, u, budget) ==
    /\ running = 0
    /\ requests[r].pc = "idle"
    /\ \A k \in Requests : k < r => requests[k].pc # "idle"
    /\ received < budget
    /\ LET id == received + 1
           h == Trim(Append(conversation_history[u], UserTurn(id)))
       IN  /\ conversation_history' = [conversation_history EXCEPT ![u] = h]
           /\ appended' = [appended EXCEPT ![u] = Append(@, UserTurn(id))]
           /\ active_account' = AccountOf(u)
           /\ requests' = [requests EXCEPT ![r] =
                    [IdleRequest EXCEPT !.pc = "model", !.user = u, !.id = id,
                                        !.account = AccountOf(u),
                                        !.current_messages = h]]
           /\ received' = id
           /\ running' = r
    /\ UNCHANGED <<active_accounts, max_turns>>
    /\ UNCHANGED <<resilience, outcome, call>>

\* One iteration of the loop up to the inspection of stop_reason: the model
\* is called, directly and synchronously, and returns resp.
ModelCall(r, resp) ==
    /\ running = r
    /\ requests[r].pc = "model"
    /\ requests[r].turn < max_turns
    /\ requests' = [requests EXCEPT ![r] =
            IF resp.stop_reason = "tool_use"
            THEN [@ EXCEPT !.pc = "tools", !.response = resp, !.block = 1,
                           !.tool_results = <<>>, !.model_calls = @ + 1]
            ELSE [@ EXCEPT !.pc = "returned", !.response = resp,
                           !.result = TextContent(resp.content),
                           !.model_calls = @ + 1, !.finals = @ + 1]]
    /\ UNCHANGED <<conversation_history, active_accounts, active_account, max_turns,
                   running, received, appended>>
    /\ UNCHANGED <<resilience, outcome, call>>

\* ... or the model call raises e, which leaves chat_with_tools.
ModelRaise(r, e) ==
    /\ running = r
    /\ requests[r].pc = "model"
    /\ requests[r].turn < max_turns
    /\ requests' = [requests EXCEPT ![r] =
            [@ EXCEPT !.pc = "raised", !.result = e, !.model_calls = @ + 1]]
    /\ UNCHANGED <<conversation_history, active_accounts, active_account, max_turns,
                   running, received, appended>>
    /\ UNCHANGED <<resilience, outcome, call>>

\* The loop is over without a return: the apology is returned.
ExhaustedRaises(r) ==
    /\ running = r
    /\ requests[r].pc = "model"
    /\ requests[r].turn >= max_turns
    /\ requests' = [requests EXCEPT ![r] =
            [@ EXCEPT !.pc = "raised", !.result = PlainError("ValueError", {})]]
    /\ UNCHANGED <<conversation_history, active_accounts, active_account, max_turns,
                   running, received, appended>>
    /\ UNCHANGED <<resilience, outcome, call>>
Exhausted(r) ==
    /\ running = r
    /\ requests[r].pc = "model"
    /\ requests[r].turn >= max_turns
    /\ requests' = [requests EXCEPT ![r] = [@ EXCEPT !.pc = "returned", !.result = Apology]]
    /\ UNCHANGED <<conversation_history, active_accounts, active_account, max_turns,
                   running, received, appended>>
    /\ UNCHANGED <<resilience, outcome, call>>

\* The blocks of a tool_use response, in order.  A block that is not a
\* ToolUseBlock is passed over; execute_tool of an unknown tool, or of a tool
\* that raises before it awaits, returns its error at once.
PassBlockSilent(r) ==
    /\ running = r
    /\ requests[r].pc = "tools"
    /\ requests[r].block <= Len(requests[r].response.content)
    /\ LET q == requests[r]
           b == q.response.content[q.block]
       IN  /\ b.type = "tool_use" => ~Suspends(b)
           /\ requests' = [requests EXCEPT ![r] = [q EXCEPT !.block = @ + 1]]
    /\ UNCHANGED <<conversation_history, active_accounts, active_account, max_turns,
                   running, received, appended>>
    /\ UNCHANGED <<resilience, outcome, call>>
PassBlock(r) ==
    /\ running = r
    /\ requests[r].pc = "tools"
    /\ requests[r].block <= Len(requests[r].response.content)
    /\ LET q == requests[r]
           b == q.response.content[q.block]
       IN  /\ b.type = "tool_use" => ~Suspends(b)
           /\ requests' = [requests EXCEPT ![r] =
                    IF b.type = "tool_use"
                    THEN [q EXCEPT !.block = @ + 1,
                                   !.tool_results =
                                        Append(@, ToolResult(b.id, ExecuteToolAtOnce(b)))]
                    ELSE [q EXCEPT !.block = @ + 1]]
    /\ UNCHANGED <<conversation_history, active_accounts, active_account, max_turns,
                   running, received, appended>>
    /\ UNCHANGED <<resilience, outcome, call>>

\* execute_tool("gmail_reply"): the token is resolved for the GET of the
\* original message, and the request is suspended until the answer.
ToolStart(r) ==
    /\ running = r
    /\ requests[r].pc = "tools"
    /\ requests[r].block <= Len(requests[r].response.content)
    /\ LET q == requests[r]
           b == q.response.content[q.block]
       IN  /\ b.type = "tool_use" /\ Suspends(b)
           /\ requests' = [requests EXCEPT ![r] =
                    [q EXCEPT !.pc = "awaiting", !.stage = "get",
                              !.used = @ \cup {GetActiveGoogleToken(active_account, GoogleTokens)}]]
    /\ running' = 0
    /\ UNCHANGED <<conversation_history, active_accounts, active_account, max_turns,
                   received, appended>>
    /\ UNCHANGED <<resilience, outcome, call>>

\* The GET is answered 200: the token is resolved again for the POST that
\* sends the reply, and the request is suspended again.
ToolSend(r) ==
    /\ running = 0
    /\ requests[r].pc = "awaiting"
    /\ requests[r].stage = "get"
    /\ requests' = [requests EXCEPT ![r] =
            [@ EXCEPT !.stage = "post",
                      !.used = @ \cup {GetActiveGoogleToken(active_account, GoogleTokens)}]]
    /\ UNCHANGED <<conversation_history, active_accounts, active_account, max_turns,
                   running, received, appended>>
    /\ UNCHANGED <<resilience, outcome, call>>

\* The tool call returns: the POST is answered, or the GET is not answered
\* 200, or either fails, and the loop over the blocks goes on.
ToolReturn(r, res) ==
    /\ running = 0
    /\ requests[r].pc = "awaiting"
    /\ res = "success" => requests[r].stage = "post"
    /\ requests' = [requests EXCEPT ![r] =
            [@ EXCEPT !.pc = "tools", !.stage = "-", !.block = @ + 1,
                      !.tool_results = Append(@,
                            ToolResult(requests[r].response.content[requests[r].block].id,
                                       GmailPayload(res)))]]
    /\ running' = r
    /\ UNCHANGED <<conversation_history, active_accounts, active_account, max_turns,
                   received, appended>>
    /\ UNCHANGED <<resilience, outcome, call>>

\* All blocks done: the response and the tool results are appended to the
\* local messages and the next iteration begins.
ToolsDoneResultsOnly(r) ==
    /\ running = r
    /\ requests[r].pc = "tools"
    /\ requests[r].block > Len(requests[r].response.content)
    /\ requests' = [requests EXCEPT ![r] =
            [@ EXCEPT !.pc = "model", !.turn = @ + 1, !.block = 0,
                      !.current_messages =
                            Append(@, [role |-> "user", id |-> requests[r].id,
                                       content |-> requests[r].tool_results]),
                      !.response = None, !.tool_results = <<>>]]
    /\ UNCHANGED <<conversation_history, active_accounts, active_account, max_turns,
                   running, received, appended>>
    /\ UNCHANGED <<resilience, outcome, call>>
ToolsDoneSameTurn(r) ==
    /\ running = r
    /\ requests[r].pc = "tools"
    /\ requests[r].block > Len(requests[r].response.content)
    /\ requests' = [requests EXCEPT ![r] =
            [@ EXCEPT !.pc = "model", !.block = 0, !.response = None, !.tool_results = <<>>]]
    /\ UNCHANGED <<conversation_history, active_accounts, active_account, max_turns,
                   running, received, appended>>
    /\ UNCHANGED <<resilience, outcome, call>>
ToolsDone(r) ==
    /\ running = r
    /\ requests[r].pc = "tools"
    /\ requests[r].block > Len(requests[r].response.content)
    /\ requests' = [requests EXCEPT ![r] =
            [@ EXCEPT !.pc = "model", !.turn = @ + 1, !.block = 0,
                      !.current_messages =
                            @ \o << [role |-> "assistant", id |-> requests[r].id,
                                     content |-> requests[r].response.content],
                                    [role |-> "user", id |-> requests[r].id,
                                     content |-> requests[r].tool_results] >>,
                      !.response = None, !.tool_results = <<>>]]
    /\ UNCHANGED <<conversation_history, active_accounts, active_account, max_turns,
                   running, received, appended>>
    /\ UNCHANGED <<resilience, outcome, call>>

\* chat_with_tools is over: the webhook appends the assistant turn, the
\* returned text or the formatted error, and answers.
Finish(r) ==
    /\ running = r
    /\ requests[r].pc \in {"returned", "raised"}
    /\ LET q == requests[r]
           assistant_message ==
                IF q.pc = "returned" THEN q.result
                ELSE FormatErrorForUser(q.result, "getting AI response")
           t == AssistantTurn(q.id, assistant_message)
       IN  /\ conversation_history' =
                    [conversation_history EXCEPT ![q.user] = Append(@, t)]
           /\ appended' = [appended EXCEPT ![q.user] = Append(@, t)]
           /\ error_stats' = IF q.pc = "raised"
                              THEN TrackError(error_stats, q.result, q.id, now)
                              ELSE error_stats
           /\ last_response' =
                    Response(q.id, q.user, IF q.pc = "raised" THEN <<q.result>> ELSE None,
                             assistant_message)
           /\ requests' = [requests EXCEPT ![r] = IdleRequest]
    /\ running' = 0
    /\ UNCHANGED <<active_accounts, active_account, max_turns, received>>
    /\ UNCHANGED <<resilience, call>>

\* The steps of chat_with_tools of request r.
LoopStep(r) ==
    \/ \E resp \in ModelResponses : ModelCall(r, resp)
    \/ \E e \in ModelErrors : ModelRaise(r, e)
    \/ Exhausted(r)
    \/ PassBlock(r)
    \/ ToolStart(r)
    \/ ToolSend(r)
    \/ \E res \in {"success", "failure"} : ToolReturn(r, res)
    \/ ToolsDone(r)

NextChat(users, slots, budget) ==
    \/ \E u \in users, a \in Accounts : SwitchAccount(u, a, budget)
    \/ \E u \in users : ReceiveMalformed(u, budget)
    \/ \E r \in slots :
        \/ \E u \in users : Receive(r, u, budget)
        \/ LoopStep(r)
        \/ Finish(r)

InitChat(turns) ==
    /\ breaker = ClaudeBreaker
    /\ policy = DefaultPolicy
    /\ frames = [c \in Callers |-> IdleFrame]
    /\ now = 0
    /\ streak = 0
    /\ InitIdleChat
    /\ max_turns \in turns
    /\ call = NoCall

\* Concurrent requests of two users.
InitConcurrent == InitChat(0..MaxConcurrentTurns)

NextConcurrent == NextChat(Users, Requests, MaxReceived)

SpecChat == InitConcurrent /\ [][NextConcurrent]_vars

\* One request at a time, of one user, with any turn budget.
InitLoop == InitChat(0..MaxTurns)

NextLoop == NextChat({"u1"}, {1}, MaxLoopMessages)

SpecLoop == InitLoop /\ [][NextLoop]_vars

\* ... where every call made by the loop comes back and the event loop
\* resumes the coroutine.
SpecLoopFair == SpecLoop /\ WF_vars(LoopStep(1)) /\ WF_vars(Finish(1))

\* One long conversation, a message at a time.
InitHistory == InitChat({1})

NextHistory == NextChat({"u1"}, {1}, MaxSequential)

SpecHistory == InitHistory /\ [][NextHistory]_vars

\* ------------------------------------------------ functions without state
\* One call of format_error_for_user or of _get_active_google_token, on any
\* arguments; the result of a call that returned is the one element of
\* `result`.
MaxMarkers == 2         \* markers in the message of an error

Messages == { m \in SUBSET Markers : Cardinality(m) <= MaxMarkers }

ErrorInstances ==
    { NewBotError(cls, m, um) :
        cls \in BotErrorClasses, m \in Messages, um \in {<<>>, <<"Custom message.">>} }
    \cup { PlainError(cls, m) : cls \in OtherErrorClasses, m \in Messages }

FormatCalls ==
    { [fn |-> "format_error_for_user", error |-> e, context |-> c,
       done |-> FALSE, result |-> <<>>] :
        e \in ErrorInstances, c \in {"", "getting AI response"} }

TokenValues(t) == {"None", "", t}

TokenCalls ==
    { [fn |-> "_get_active_google_token",
       tokens |-> InitializeTokens(sw, sp, env), attr |-> a,
       done |-> FALSE, result |-> <<>>] :
        sw \in TokenValues("token-work"), sp \in TokenValues("token-personal"),
        env \in TokenValues("token-env"), a \in {"unset", "work", "personal"} }

\* initialize: the credentials loaded, the Google tokens as InitializeTokens
\* sets them, and the families of tools put in available_tools.
Credentials(google, todoist, maps, search_key, search_cx) ==
    [google |-> google,
     todoist_token |-> todoist,
     google_maps_api_key |-> maps,
     google_custom_search_api_key |-> search_key,
     google_custom_search_engine_id |-> search_cx]

AvailableTools(cred) ==
    (IF ~Falsy(cred.todoist_token) THEN {"todoist"} ELSE {})
    \cup (IF ~Falsy(cred.google.legacy) THEN {"gmail", "calendar"} ELSE {})
    \cup (IF ~Falsy(cred.google_maps_api_key) THEN {"google_maps"} ELSE {})
    \cup (IF ~Falsy(cred.google_custom_search_api_key)
              /\ ~Falsy(cred.google_custom_search_engine_id)
          THEN {"web_search"} ELSE {})

KeyValues == {"None", "key"}

InitializeCalls ==
    { [fn |-> "initialize",
       credentials |-> Credentials(InitializeTokens(sw, sp, env), td, maps, key, cx),
       done |-> FALSE, result |-> <<>>] :
        sw \in TokenValues("token-work"), sp \in TokenValues("token-personal"),
        env \in TokenValues("token-env"),
        td \in KeyValues, maps \in KeyValues, key \in KeyValues, cx \in KeyValues }

InitializeReturns ==
    /\ call.fn = "initialize"
    /\ ~call.done
    /\ call' = [call EXCEPT !.done = TRUE, !.result = <<AvailableTools(call.credentials)>>]
    /\ UNCHANGED <<resilience, chat>>

FormatReturns ==
    /\ call.fn = "format_error_for_user"
    /\ ~call.done
    /\ call' = [call EXCEPT !.done = TRUE,
                            !.result = <<FormatErrorForUser(call.error, call.context)>>]
    /\ UNCHANGED <<resilience, chat>>

TokenReturns ==
    /\ call.fn = "_get_active_google_token"
    /\ ~call.done
    /\ call' = [call EXCEPT !.done = TRUE,
                            !.result = <<GetActiveGoogleToken(call.attr, call.tokens)>>]
    /\ UNCHANGED <<resilience, chat>>

InitPure ==
    /\ breaker = ClaudeBreaker
    /\ policy = DefaultPolicy
    /\ frames = [c \in Callers |-> IdleFrame]
    /\ now = 0
    /\ streak = 0
    /\ InitIdleChat
    /\ max_turns = 5
    /\ call \in FormatCalls \cup TokenCalls \cup InitializeCalls

NextPure == FormatReturns \/ TokenReturns \/ InitializeReturns

SpecPure == InitPure /\ [][NextPure]_vars

\* ------------------------------------------------- vocabulary of the claims
Elapsed == now - breaker.last_failure_time[1]

\* Caller c makes a call in this step.
Enters(c) == frames[c].pc = "idle" /\ frames'[c].pc # "idle"

\* ... and the breaker rejects it: the circuit-open error, the operation not invoked.
Rejects(c) ==
    /\ Enters(c)
    /\ frames'[c].pc = "done"
    /\ frames'[c].result = CircuitOpen
    /\ frames'[c].invoked = 0

\* ... or admits it: the operation is invoked.
Admits(c) == Enters(c) /\ frames'[c].pc = "running" /\ frames'[c].invoked = 1

\* The operation of caller c returns in this step of a direct call.
Succeeds(c) ==
    /\ frames[c].pc = "running"
    /\ frames'[c].pc = "done"
    /\ frames'[c].result = "return"

\* The operation of caller c raises in this step of a direct call.
Fails(c) ==
    /\ frames[c].pc = "running"
    /\ frames'[c].pc = "done"
    /\ frames'[c].result \in OperationErrors

\* C1: a breaker that starts CLOSED with failure_count 0 is OPEN right after
\* the T-th consecutive failing call (T = failure_threshold), stays OPEN
\* while less than the timeout has elapsed since the last failure, and every
\* call made in that period is rejected with the circuit-open error, the
\* operation not invoked and the breaker untouched.
C1_OpensAfterThresholdAndRejects ==
    /\ [](streak >= breaker.failure_threshold /\ Elapsed < breaker.timeout
            => breaker.state = "OPEN")
    /\ [][streak' = streak + 1 /\ streak' >= breaker.failure_threshold
            => breaker'.state = "OPEN"]_vars
    /\ [][\A c \in Callers :
            Enters(c) /\ streak >= breaker.failure_threshold /\ Elapsed < breaker.timeout
                => Rejects(c) /\ breaker' = breaker]_vars

C1_Witness ==
    /\ streak >= breaker.failure_threshold
    /\ breaker.state = "OPEN"
    /\ Elapsed < breaker.timeout
    /\ \E c \in Callers :
        /\ frames[c].pc = "done"
        /\ frames[c].result = CircuitOpen
        /\ frames[c].invoked = 0

\* C2 as claimed: the state leaves OPEN only by a call made after the timeout
\* has elapsed, such a call makes it HALF_OPEN and invokes the operation, and
\* when the operation of a call admitted in HALF_OPEN returns the breaker
\* ends CLOSED with failure_count 0.
C2_Original ==
    /\ [][breaker.state = "OPEN" /\ breaker'.state # "OPEN"
            => /\ breaker'.state = "HALF_OPEN"
               /\ Elapsed > breaker.timeout
               /\ \E c \in Callers : Admits(c)]_vars
    /\ [][\A c \in Callers :
            Enters(c) /\ breaker.state = "OPEN" /\ Elapsed > breaker.timeout
                => Admits(c) /\ breaker'.state = "HALF_OPEN"]_vars
    /\ [][\A c \in Callers :
            Succeeds(c) /\ frames[c].entered = "HALF_OPEN"
                => breaker'.state = "CLOSED" /\ breaker'.failure_count = 0]_vars

\* C2, amended: the same, except that the returning operation closes the
\* breaker and resets failure_count only if the state is still HALF_OPEN at
\* that moment, which is always so for the synchronous call; if another call
\* in flight has completed in between and the state is no longer HALF_OPEN,
\* the return leaves the breaker as it is.
C2_HalfOpenThenClosed ==
    /\ [][breaker.state = "OPEN" /\ breaker'.state # "OPEN"
            => /\ breaker'.state = "HALF_OPEN"
               /\ Elapsed > breaker.timeout
               /\ \E c \in Callers : Admits(c)]_vars
    /\ [][\A c \in Callers :
            Enters(c) /\ breaker.state = "OPEN" /\ Elapsed > breaker.timeout
                => Admits(c) /\ breaker'.state = "HALF_OPEN"]_vars
    /\ [][\A c \in Callers :
            Succeeds(c) /\ frames[c].entered = "HALF_OPEN"
                => /\ breaker.state = "HALF_OPEN"
                        => breaker'.state = "CLOSED" /\ breaker'.failure_count = 0
                   /\ breaker.state # "HALF_OPEN" => breaker' = breaker
                   /\ frames[c].via = "call" => breaker.state = "HALF_OPEN"]_vars

C2_Witness ==
    /\ breaker.state = "CLOSED"
    /\ breaker.failure_count = 0
    /\ breaker.last_failure_time # None
    /\ \E c \in Callers :
        /\ frames[c].pc = "done"
        /\ frames[c].result = "return"
        /\ frames[c].entered = "HALF_OPEN"

\* C3 as claimed: when the operation of a call admitted in HALF_OPEN raises,
\* the breaker ends OPEN with last_failure_time the time of that failure,
\* and calls are rejected for a full timeout from then.
C3_Original ==
    [][\A c \in Callers :
        Fails(c) /\ frames[c].entered = "HALF_OPEN"
            => /\ breaker'.state = "OPEN"
               /\ breaker'.last_failure_time = <<now>>
               /\ \A t \in now..(now + breaker.timeout - 1) :
                    Admission(breaker', t) = "reject"]_vars

\* C3, amended: the same provided the state is still HALF_OPEN when the
\* operation raises, which is always so for the synchronous call; in every
\* case last_failure_time becomes the time of the failure.
C3_HalfOpenFailureReopens ==
    [][\A c \in Callers :
        Fails(c) /\ frames[c].entered = "HALF_OPEN"
            => /\ breaker'.last_failure_time = <<now>>
               /\ frames[c].via = "call" => breaker.state = "HALF_OPEN"
               /\ breaker.state = "HALF_OPEN"
                    => /\ breaker'.state = "OPEN"
                       /\ \A t \in now..(now + breaker.timeout - 1) :
                            Admission(breaker', t) = "reject"]_vars

C3_Witness ==
    /\ breaker.state = "OPEN"
    /\ breaker.failure_count > breaker.failure_threshold
    /\ \E c \in Callers :
        /\ frames[c].pc = "done"
        /\ frames[c].result \in OperationErrors
        /\ frames[c].entered = "HALF_OPEN"
        /\ breaker.last_failure_time = <<now>>

\* C4 as claimed: a call on an OPEN breaker is rejected exactly when less
\* than the timeout has elapsed since last_failure_time, and is admitted,
\* making the state HALF_OPEN, when the elapsed time is the timeout or more.
C4_Original ==
    [][\A c \in Callers :
        Enters(c) /\ breaker.state = "OPEN"
            => /\ Rejects(c) <=> Elapsed < breaker.timeout
               /\ Elapsed >= breaker.timeout
                    => Admits(c) /\ breaker'.state = "HALF_OPEN"]_vars

\* C4, amended: a call on an OPEN breaker is rejected exactly when the
\* elapsed time is at most the timeout (equal included), leaving the breaker
\* untouched; it is admitted, making the state HALF_OPEN, only when the
\* elapsed time exceeds the timeout.
C4_RejectedUpToTimeout ==
    [][\A c \in Callers :
        Enters(c) /\ breaker.state = "OPEN"
            => /\ Rejects(c) <=> Elapsed <= breaker.timeout
               /\ Rejects(c) => breaker' = breaker
               /\ Elapsed > breaker.timeout
                    => Admits(c) /\ breaker'.state = "HALF_OPEN"]_vars

C4_Witness ==
    /\ breaker.state = "OPEN"
    /\ Elapsed = breaker.timeout
    /\ \E c \in Callers :
        /\ frames[c].pc = "done"
        /\ frames[c].result = CircuitOpen
        /\ frames[c].invoked = 0

\* C5: a failing call made while the breaker is CLOSED (admitted in CLOSED,
\* or raising while the state is CLOSED) increments failure_count by exactly
\* 1; the state becomes OPEN iff the incremented count has reached
\* failure_threshold, and otherwise stays CLOSED.
C5_ClosedFailureCounts ==
    [][\A c \in Callers :
        Fails(c) /\ (frames[c].entered = "CLOSED" \/ breaker.state = "CLOSED")
            => /\ breaker'.failure_count = breaker.failure_count + 1
               /\ breaker'.state = "OPEN"
                    <=> breaker'.failure_count >= breaker.failure_threshold
               /\ breaker'.failure_count < breaker.failure_threshold
                    => breaker.state = "CLOSED" /\ breaker'.state = "CLOSED"]_vars

C5_Witness ==
    /\ breaker.state = "CLOSED"
    /\ breaker.failure_count = 1
    /\ breaker.failure_threshold = 2
    /\ \E c \in Callers :
        /\ frames[c].pc = "done"
        /\ frames[c].result \in OperationErrors
        /\ frames[c].entered = "CLOSED"

\* C6 as claimed: a call whose operation returns while the breaker is CLOSED
\* leaves failure_count unchanged, and failure_count is 0 after it.
C6_Original ==
    [][\A c \in Callers :
        Succeeds(c) /\ breaker.state = "CLOSED"
            => /\ breaker'.failure_count = breaker.failure_count
               /\ breaker'.failure_count = 0]_vars

\* C6, amended: a call whose operation returns while the breaker is CLOSED
\* leaves the breaker, failure_count included, unchanged; failure_count is 0
\* after it only if it was 0 before: failures below the threshold stay counted.
C6_ClosedSuccessKeepsCount ==
    [][\A c \in Callers :
        Succeeds(c) /\ breaker.state = "CLOSED" => breaker' = breaker]_vars

C6_Witness ==
    /\ breaker.state = "CLOSED"
    /\ breaker.failure_count = 1
    /\ streak = 0
    /\ \E c \in Callers :
        /\ frames[c].pc = "done"
        /\ frames[c].result = "return"

\* C7: whenever the state is OPEN, last_failure_time is set, so the test of
\* the elapsed time never meets None.
C7_OpenHasFailureTime ==
    /\ breaker.state = "OPEN" => breaker.last_failure_time # None
    /\ Admission(breaker, now) # "TypeError"

C7_Witness == breaker.state = "OPEN" /\ Admission(breaker, now) = "half_open"

\* C8: failure_count never decreases except by a reset to 0, and the step
\* that resets it is the return of some call's operation; a failing call, a
\* rejected call and the passage of time never lower it.
C8_CountResetOnlyBySuccess ==
    [][breaker'.failure_count < breaker.failure_count
        => /\ breaker'.failure_count = 0
           /\ \E c \in Callers : Succeeds(c)]_vars

C8_Witness ==
    /\ breaker.failure_count = 0
    /\ breaker.last_failure_time # None
    /\ \E c \in Callers :
        /\ frames[c].pc = "done"
        /\ frames[c].result = "return"
        /\ frames[c].entered = "HALF_OPEN"
        /\ frames[c].via = "call_async"

\* C9: one call of a decorated function invokes the operation at most
\* max_retries + 1 times, in at most max_retries + 1 attempts; the first
\* attempt that returns ends the call at once with that result, nothing
\* attempted or slept after it; and when the call ends with a retryable
\* exception, every attempt has failed and exactly max_retries + 1 attempts
\* were made (each one an invocation when no breaker stands in between).
C9_AtMostMaxRetriesPlusOne ==
    \A c \in Callers :
        LET f == frames[c]
        IN  f.via \in WrapperVias
                => /\ f.invoked <= policy.max_retries + 1
                   /\ f.attempt + 1 <= policy.max_retries + 1
                   /\ f.invoked <= f.attempt + 1
                   /\ f.returned >= 1
                        => /\ f.returned = 1
                           /\ f.pc = "done"
                           /\ f.result = "return"
                           /\ Len(f.delays) = f.attempt
                   /\ f.pc = "done" /\ f.result = "return" => f.returned = 1
                   /\ f.pc = "done" /\ f.result # "return"
                                    /\ IsInstance(f.result, policy.exceptions)
                        => /\ f.attempt + 1 = policy.max_retries + 1
                           /\ f.returned = 0
                           /\ ~UsesBreaker(policy) => f.invoked = policy.max_retries + 1

C9_Witness ==
    /\ policy.max_retries >= 2
    /\ \E c \in Callers :
        /\ frames[c].via \in WrapperVias
        /\ frames[c].pc = "done"
        /\ frames[c].result \in OperationErrors
        /\ IsInstance(frames[c].result, policy.exceptions)
        /\ frames[c].invoked = policy.max_retries + 1

\* C10: the k-th delay slept by a call of a decorated function, the one
\* before attempt k (0-indexed), is initial_delay * exponential_base^(k-1):
\* 1, 2, 4 for max_retries = 3, initial_delay = 1, exponential_base = 2; one
\* delay is slept between two attempts and none after the last attempt,
\* failed or not.
C10_BackoffDelays ==
    \A c \in Callers :
        LET f == frames[c]
        IN  f.via \in WrapperVias
                => /\ \A k \in 1..Len(f.delays) :
                        f.delays[k] = policy.initial_delay * Pow(policy.exponential_base, k - 1)
                   /\ Len(f.delays) = IF f.pc = "sleeping" THEN f.attempt + 1 ELSE f.attempt
                   /\ f.pc = "sleeping" => f.wake_at <= now + f.delays[Len(f.delays)]
                   /\ policy.initial_delay = 1 /\ policy.exponential_base = 2
                        => \A k \in 1..Len(f.delays) : f.delays[k] = <<1, 2, 4, 8, 16>>[k]

C10_Witness ==
    /\ policy.max_retries = 3
    /\ policy.initial_delay = 1
    /\ policy.exponential_base = 2
    /\ \E c \in Callers :
        /\ frames[c].via \in WrapperVias
        /\ frames[c].pc = "done"
        /\ frames[c].attempt = 3
        /\ frames[c].result \in OperationErrors
        /\ frames[c].delays = <<1, 2, 4>>

\* C11: when an attempt of a decorated function ends with an exception that
\* is not an instance of the configured `exceptions`, the call is over: no
\* further attempt is made, no delay is slept after that attempt, and that
\* same exception is what the caller receives.
C11_NonRetryablePropagates ==
    \A c \in Callers :
        LET f == frames[c]
        IN  (f.via \in WrapperVias /\ f.raised # "None"
                /\ ~IsInstance(f.raised, policy.exceptions))
                => /\ f.pc = "done"
                   /\ f.result = f.raised
                   /\ Len(f.delays) = f.attempt

C11_Witness ==
    \E c \in Callers :
        /\ frames[c].via \in WrapperVias
        /\ policy.max_retries >= 2
        /\ frames[c].attempt = 1
        /\ frames[c].raised = "TranscriptionError"
        /\ ~IsInstance("TranscriptionError", policy.exceptions)
        /\ frames[c].pc = "done"
        /\ frames[c].result = "TranscriptionError"

C13_RejectionFailsFast ==
    \A c \in Callers :
        LET f == frames[c]
        IN  (f.via \in WrapperVias
                /\ policy = [DefaultPolicy EXCEPT !.circuit_breaker_name = "whisper"]
                /\ f.raised = CircuitOpen)
                => /\ f.pc = "done"
                   /\ f.result = CircuitOpen
                   /\ Len(f.delays) = f.attempt

\* ------------------------------------------- vocabulary of the chat claims
\* Request r is inside the loop of chat_with_tools.
InLoop(r) == requests[r].pc \in {"model", "tools", "awaiting"}

\* The model call of request r raises in this step.
ModelFails(r) == requests[r].pc = "model" /\ requests'[r].pc = "raised"

\* The model is invoked for request r in this step.
ModelInvoked(r) == requests'[r].model_calls = requests[r].model_calls + 1

\* C14: every model call of chat_with_tools goes through the retry policy
\* and the "claude" circuit breaker: a model call that fails is counted in
\* that breaker and, the policy allowing retries, is tried again before the
\* error leaves chat_with_tools; and while the breaker is OPEN no model call
\* is made.
C14_ModelCallsGuarded ==
    /\ [][\A r \in Requests :
            ModelFails(r) =>
                /\ breaker'.failure_count = breaker.failure_count + 1
                /\ requests'[r].model_calls > policy.max_retries]_vars
    /\ [][\A r \in Requests :
            breaker.state = "OPEN" => ~ModelInvoked(r)]_vars

\* C15: the stored history of every conversation holds at most W = 10
\* turns in every reachable state, after the assistant turn is appended too.
C15_HistoryWithinWindow ==
    \A u \in Users : Len(conversation_history[u]) <= Window

\* C16: eviction is first-in-first-out: the stored history is always the
\* most recently appended turns of the conversation, in the order they were
\* appended, so a turn is dropped only when every older turn is dropped too
\* and nothing is reordered; a trim leaves the last W turns.
C16_EvictionIsFIFO ==
    /\ [](\A u \in Users :
            LET h == conversation_history[u]
                a == appended[u]
            IN  /\ Len(h) <= Len(a)
                /\ h = SubSeq(a, Len(a) - Len(h) + 1, Len(a)))
    /\ [][\A u \in Users :
            Len(conversation_history'[u]) <= Len(conversation_history[u])
                /\ appended'[u] # appended[u]
                => conversation_history'[u] =
                        SubSeq(appended'[u], Len(appended'[u]) - Window + 1, Len(appended'[u]))]_vars

C16_Witness ==
    \E u \in Users :
        /\ Len(appended[u]) = Window + 1
        /\ Len(conversation_history[u]) = Window
        /\ conversation_history[u][1] = appended[u][2]
        /\ conversation_history[u][Window] = appended[u][Window + 1]

\* C17: messages of one conversation are serialized: while a request of a
\* user is in progress, a later request of the same user has not called the
\* model, and in the stored history every user turn that has a successor is
\* followed by the assistant turn of the same message.
C17_SameConversationSerialized ==
    /\ \A r1 \in Requests, r2 \in Requests :
            (/\ r1 # r2
             /\ InFlight(requests[r1]) /\ InFlight(requests[r2])
             /\ requests[r1].user = requests[r2].user
             /\ requests[r1].id < requests[r2].id)
                => requests[r2].model_calls = 0
    /\ \A u \in Users :
            LET h == conversation_history[u]
            IN  \A i \in 1..(Len(h) - 1) :
                    h[i].role = "user"
                        => h[i + 1].role = "assistant" /\ h[i + 1].id = h[i].id

\* C18: every token resolution of a tool call made inside a chat_with_tools
\* call started with active_account = a resolves the token of account a,
\* whatever other chat_with_tools calls start meanwhile.
C18_ToolsUseRequestedAccount ==
    \A r \in Requests :
        InFlight(requests[r])
            => requests[r].used \subseteq
                    {GetActiveGoogleToken(requests[r].account, GoogleTokens)}

\* C19: a chat_with_tools call with max_turns = N whose model answers
\* tool_use every time calls the model exactly N times, once per turn, and
\* then returns the apology text, once, as a normal return value.
C19_ExhaustionReturnsApology ==
    /\ [](\A r \in Requests :
            LET q == requests[r]
            IN  q.finals = 0 /\ q.pc # "raised"
                    => /\ InLoop(r)
                            => q.model_calls = IF q.pc = "model" THEN q.turn ELSE q.turn + 1
                       /\ q.model_calls <= max_turns
                       /\ q.pc = "returned"
                            => q.model_calls = max_turns /\ q.result = Apology)
    /\ [][\A r \in Requests :
            /\ requests[r].pc = "model" /\ requests[r].turn = max_turns
                    /\ requests'[r] # requests[r]
                => /\ requests'[r].pc = "returned"
                   /\ requests'[r].result = Apology
                   /\ requests'[r].model_calls = max_turns
            /\ requests[r].pc = "returned" /\ requests'[r] # requests[r]
                => requests'[r].pc = "idle"]_vars

C19_Witness ==
    /\ max_turns = 5
    /\ \E r \in Requests :
        /\ requests[r].pc = "returned"
        /\ requests[r].finals = 0
        /\ requests[r].model_calls = 5
        /\ requests[r].result = Apology

\* C20: when every model call and tool call returns, chat_with_tools
\* terminates: a call in its loop eventually leaves it; the model is called
\* at most max_turns times; the first response whose stop_reason is not
\* tool_use ends the loop; and a call that returns returns either the text
\* of that response or, after max_turns tool_use responses, the apology.
C20_Terminates ==
    /\ [](\A r \in Requests :
            LET q == requests[r]
            IN  /\ q.model_calls <= max_turns
                /\ q.finals <= 1
                /\ q.finals = 1 => q.pc = "returned"
                /\ q.pc = "returned"
                    => \/ /\ q.finals = 1
                          /\ q.response.stop_reason # "tool_use"
                          /\ q.result = TextContent(q.response.content)
                          /\ q.result # Apology
                       \/ /\ q.finals = 0
                          /\ q.turn = max_turns
                          /\ q.result = Apology)
    /\ \A r \in Requests : InLoop(r) ~> ~InLoop(r)

C20_Witness ==
    \E r \in Requests :
        /\ requests[r].pc = "returned"
        /\ requests[r].finals = 1
        /\ requests[r].model_calls = 3
        /\ requests[r].result = <<"a", "b">>

\* The ids of the tool-use requests of a response, in the order returned.
RECURSIVE ToolUseIds(_)
ToolUseIds(content) ==
    IF content = <<>> THEN <<>>
    ELSE (IF Head(content).type = "tool_use" THEN <<Head(content).id>> ELSE <<>>)
            \o ToolUseIds(Tail(content))

\* The ids a sequence of tool results answers, in order.
ResultIds(results) == [i \in 1..Len(results) |-> results[i].tool_use_id]

\* The entries the loop of request q has appended to its messages in its
\* k-th tool-use turn: the response and the tool results.
TurnResponse(q, k) == q.current_messages[Len(q.current_messages) - 2 * (q.turn - k) - 1]
TurnResults(q, k) == q.current_messages[Len(q.current_messages) - 2 * (q.turn - k)]

\* C21: in every tool-use turn each tool-use request of the response is
\* answered by exactly one tool_result with the same id, the results are in
\* the order of the requests, and all of them are in the working messages,
\* right after the response, before the model is called again.
C21_ToolResultsAnswerRequests ==
    \A r \in Requests :
        LET q == requests[r]
        IN  /\ q.pc \in {"tools", "awaiting"}
                => ResultIds(q.tool_results)
                        = ToolUseIds(SubSeq(q.response.content, 1, q.block - 1))
            /\ InLoop(r)
                => /\ Len(q.current_messages) >= 2 * q.turn
                   /\ \A k \in 1..q.turn :
                        /\ TurnResponse(q, k).role = "assistant"
                        /\ TurnResults(q, k).role = "user"
                        /\ \A i \in 1..Len(TurnResults(q, k).content) :
                                TurnResults(q, k).content[i].type = "tool_result"
                        /\ ResultIds(TurnResults(q, k).content)
                                = ToolUseIds(TurnResponse(q, k).content)

C21_Witness ==
    \E r \in Requests :
        /\ requests[r].pc = "model"
        /\ requests[r].turn = 2
        /\ ResultIds(TurnResults(requests[r], 2).content) = <<"toolu_1", "toolu_2", "toolu_3">>
        /\ TurnResults(requests[r], 2).content[3].content = JsonDumps(GmailPayload("success"))

\* The tool-use requests of a response, in the order returned.
IsToolUse(b) == b.type = "tool_use"
ToolUseBlocks(content) == SelectSeq(content, IsToolUse)

\* The payload a tool result carries.
PayloadOf(result) == result.content.json

\* The tool results request q holds, with the request each one answers:
\* those of the turn in progress and those already in its messages.
Answered(q) ==
    { <<ToolUseBlocks(q.response.content)[i], q.tool_results[i]>> :
        i \in 1..(IF q.pc \in {"tools", "awaiting"} THEN Len(q.tool_results) ELSE 0) }
    \cup UNION { { <<ToolUseBlocks(TurnResponse(q, k).content)[i], TurnResults(q, k).content[i]>> :
                    i \in 1..Len(TurnResults(q, k).content) } :
                 k \in 1..(IF q.pc \in {"model", "tools", "awaiting"} THEN q.turn ELSE 0) }

\* C22: the tool result for a tool name that is not registered carries a
\* payload with success = false and an error diagnostic; the loop goes on
\* and that payload is the tool result of the offending call id in the
\* messages of the next model call.
C22_UnknownToolPayload ==
    \A r \in Requests :
        \A a \in Answered(requests[r]) :
            a[1].name \notin RegisteredTools
                => /\ a[2].tool_use_id = a[1].id
                   /\ "error" \in DOMAIN PayloadOf(a[2])
                   /\ "success" \in DOMAIN PayloadOf(a[2])
                   /\ PayloadOf(a[2]).success = FALSE

\* C23: execute_tool does not raise, and when the executor of a registered
\* tool raises, the payload returned has success = false and the diagnostic
\* in error: every payload of a registered tool has a boolean success.
C23_DispatchPayloadHasSuccess ==
    \A r \in Requests :
        \A a \in Answered(requests[r]) :
            a[1].name \in RegisteredTools
                => /\ "success" \in DOMAIN PayloadOf(a[2])
                   /\ PayloadOf(a[2]).success \in BOOLEAN
                   /\ ~PayloadOf(a[2]).success => "error" \in DOMAIN PayloadOf(a[2])

\* The webhook answers an error in this step.
AnswersError == last_response' # last_response /\ last_response'.error # None

\* C24: whenever the webhook answers a terminal error raised while it
\* processes a message, the answer is a non-empty user-facing message and the
\* history of the conversation ends with the user's turn followed by an
\* assistant turn holding that message.
C24_ErrorAnswerRecorded ==
    [][AnswersError
        => LET h == conversation_history'[last_response'.user]
               id == last_response'.request_id
           IN  /\ last_response'.body # <<>>
               /\ Len(h) >= 2
               /\ h[Len(h) - 1] = UserTurn(id)
               /\ h[Len(h)] = AssistantTurn(id, last_response'.body)]_vars

RECURSIVE SumOver(_, _)
SumOver(f, S) ==
    IF S = {} THEN 0
    ELSE LET k == CHOOSE x \in S : TRUE IN f[k] + SumOver(f, S \ {k})

\* C25: every terminal error the webhook handles adds exactly 1 to
\* total_errors and to the count of its kind and replaces last_error by a
\* record of its kind, message, timestamp and request id; nothing else
\* changes error_stats, so total_errors is the sum of the counts by kind and
\* last_error is unset exactly when total_errors = 0.
C25_ErrorStatsCount ==
    /\ [](/\ error_stats.total_errors = SumOver(error_stats.error_by_type, ErrorKinds)
          /\ error_stats.last_error = None <=> error_stats.total_errors = 0)
    /\ [][AnswersError <=> error_stats' # error_stats]_vars
    /\ [][AnswersError
            => LET e == last_response'.error[1]
               IN  /\ error_stats'.total_errors = error_stats.total_errors + 1
                   /\ error_stats'.error_by_type =
                            [error_stats.error_by_type EXCEPT ![e.cls] = @ + 1]
                   /\ Len(error_stats'.last_error) = 1
                   /\ error_stats'.last_error[1].type = e.cls
                   /\ error_stats'.last_error[1].message = e.message
                   /\ error_stats'.last_error[1].timestamp = now
                   /\ error_stats'.last_error[1].request_id = last_response'.request_id]_vars

C25_Witness ==
    /\ error_stats.total_errors = 2
    /\ error_stats.error_by_type["ValueError"] = 1
    /\ error_stats.error_by_type["APIConnectionError"] = 1
    /\ error_stats.last_error[1].type = "APIConnectionError"
    /\ error_stats.last_error[1].request_id = 2

\* A call of format_error_for_user has returned.
Formatted == call.fn = "format_error_for_user" /\ call.done

\* C26: format_error_for_user is total: for every error instance, of a
\* BotError class or not, of a class in its table or not, constructed with
\* or without a user message, with or without context, it returns a
\* non-empty text.
C26_FormatIsTotal ==
    Formatted
        => /\ Len(call.result) = 1
           /\ call.result[1] # <<>>
           /\ \A i \in 1..Len(call.result[1]) : call.result[1][i] # ""

C26_Witness ==
    /\ Formatted
    /\ call.error = PlainError("KeyError", {})
    /\ call.context = ""
    /\ call.result = <<GenericText>>

\* C27: an error whose message contains "429" or "rate limit" maps to the
\* rate-limit message whatever its class, the BotError classes constructed
\* without a user message included.
C27_RateLimitPatternWins ==
    Formatted /\ call.error.message \cap {"429", "rate limit"} # {}
        => call.result = <<RateLimitText>>

\* C28: an error of a class of the table that is a BotError, constructed
\* without a user message and with a message holding no marker, maps to the
\* message of its class in the table.
C28_KindTableUsed ==
    (/\ Formatted
     /\ call.error.cls \in BotErrorClasses \cap DOMAIN ErrorMappings
     /\ call.error = NewBotError(call.error.cls, {}, <<>>))
        => call.result = <<ErrorMappings[call.error.cls]>>

\* A call of _get_active_google_token is over.
Resolved == call.fn = "_get_active_google_token" /\ call.done

\* The token of the requested account, personal when none was requested.
RequestedToken == IF call.attr = "work" THEN call.tokens.work ELSE call.tokens.personal

\* The candidates in the order of resolution, and the present ones among them.
Candidates == <<RequestedToken, call.tokens.work, call.tokens.legacy>>
IsPresent(token) == ~Falsy(token)
PresentCandidates == SelectSeq(Candidates, IsPresent)

C30_NoTokenRaises ==
    Resolved /\ PresentCandidates = <<>>
        => call.result = <<"AuthenticationError">>

\* C37: in every reachable state of a breaker with failure_threshold >= 1,
\* whatever the interleaving of the calls in flight, the state is CLOSED if
\* and only if failure_count < failure_threshold.
C37_ClosedIffBelowThreshold ==
    breaker.failure_threshold >= 1
        => (breaker.state = "CLOSED" <=> breaker.failure_count < breaker.failure_threshold)

C37_Witness ==
    /\ breaker.state = "HALF_OPEN"
    /\ breaker.failure_count >= breaker.failure_threshold
    /\ \A c \in Callers : frames[c].pc = "running" /\ frames[c].via = "call_async"

\* C38: a call rejected because the breaker is OPEN leaves state,
\* failure_count and last_failure_time as they were, so it neither counts as
\* a failure nor moves the end of the period in which calls are rejected.
C38_RejectionLeavesBreaker ==
    [][\A c \in Callers :
        Rejects(c)
            => /\ breaker.state = "OPEN"
               /\ breaker'.state = breaker.state
               /\ breaker'.failure_count = breaker.failure_count
               /\ breaker'.last_failure_time = breaker.last_failure_time
               /\ \A t \in now..(now + breaker.timeout + 1) :
                    Admission(breaker', t) = Admission(breaker, t)]_vars

C38_Witness ==
    /\ breaker.state = "OPEN"
    /\ breaker.last_failure_time # <<now>>
    /\ breaker.failure_count = breaker.failure_threshold
    /\ \A c \in Callers :
        /\ frames[c].pc = "done"
        /\ frames[c].result = CircuitOpen
        /\ frames[c].invoked = 0

\* C39: with several call_async calls in flight, a call whose operation
\* returns while the state is OPEN leaves the breaker as it is; the state
\* becomes CLOSED only by a return observed while the state is HALF_OPEN;
\* and a call made while the state is HALF_OPEN is admitted like the first.
C39_SuccessWhileOpen ==
    /\ [][\A c \in Callers :
            Succeeds(c) /\ breaker.state = "OPEN" => breaker' = breaker]_vars
    /\ [][breaker.state # "CLOSED" /\ breaker'.state = "CLOSED"
            => breaker.state = "HALF_OPEN" /\ \E c \in Callers : Succeeds(c)]_vars
    /\ [][\A c \in Callers :
            Enters(c) /\ breaker.state = "HALF_OPEN"
                => Admits(c) /\ frames'[c].entered = "HALF_OPEN" /\ breaker' = breaker]_vars

C39_Witness ==
    /\ breaker.state = "OPEN"
    /\ breaker.failure_count > breaker.failure_threshold
    /\ frames[1].via = "call_async"
    /\ frames[1].pc = "done"
    /\ frames[1].result = "return"
    /\ frames[1].entered = "HALF_OPEN"
    /\ frames[2].via = "call_async"
    /\ frames[2].pc = "done"
    /\ frames[2].result \in OperationErrors
    /\ frames[2].entered = "HALF_OPEN"

\* C40: when from some moment on every operation returns, time passes and
\* calls keep being made, a breaker that is OPEN or HALF_OPEN at or after
\* that moment eventually is CLOSED with failure_count = 0 and stays so.
C40_Recovers ==
    (now >= MaxBreakerTime /\ breaker.state \in {"OPEN", "HALF_OPEN"})
        ~> [](breaker.state = "CLOSED" /\ breaker.failure_count = 0)

C40_Witness ==
    /\ now > MaxBreakerTime
    /\ breaker.state = "CLOSED"
    /\ breaker.failure_count = 0
    /\ breaker.last_failure_time = <<MaxBreakerTime - 1>>
    /\ \E c \in RecoveryCallers :
        /\ frames[c].pc = "done"
        /\ frames[c].result = "return"
        /\ frames[c].entered = "HALF_OPEN"

\* The decorator names a breaker of the registry.
Named == policy.circuit_breaker_name \in BreakerNames

\* An attempt of the decorated call of c ends in this step: its operation
\* raises, or the open breaker rejects it before the operation is invoked.
AttemptRaises(c) ==
    /\ frames[c].via \in WrapperVias
    /\ frames[c].pc = "running"
    /\ frames'[c].pc # "running"
    /\ frames'[c].raised \in OperationErrors
AttemptRejected(c) ==
    /\ frames[c].pc \in {"idle", "sleeping"}
    /\ frames'[c].via \in WrapperVias
    /\ frames'[c] # frames[c]
    /\ frames'[c].raised = CircuitOpen

\* Attempts of the call of c whose operation has raised so far.
FailedAttempts(c) ==
    frames[c].invoked - frames[c].returned - (IF frames[c].pc = "running" THEN 1 ELSE 0)

\* C35: under retry_with_backoff with a named breaker every attempt whose
\* operation raises, retryable or not, adds exactly 1 to the failure_count
\* of that breaker, and an attempt rejected by the open breaker leaves the
\* breaker as it is and invokes nothing; so a call none of whose attempts
\* has returned and of which failure_threshold attempts have raised has
\* opened the breaker by itself.
C35_EveryFailedAttemptCounts ==
    /\ [][\A c \in Callers :
            Named /\ AttemptRaises(c)
                => breaker'.failure_count = breaker.failure_count + 1]_vars
    /\ [][\A c \in Callers :
            Named /\ AttemptRejected(c)
                => breaker' = breaker /\ frames'[c].invoked = frames[c].invoked
                                     /\ (frames[c].pc = "idle" => frames'[c].invoked = 0)]_vars
    /\ [](\A c \in Callers :
            (/\ Named
             /\ frames[c].via \in WrapperVias
             /\ frames[c].returned = 0
             /\ FailedAttempts(c) >= breaker.failure_threshold)
                => breaker.state \in {"OPEN", "HALF_OPEN"})

C35_Witness ==
    /\ Named
    /\ policy.exceptions = {"APIError"}
    /\ breaker.failure_threshold = 2
    /\ breaker.failure_count = 2
    /\ breaker.state = "OPEN"
    /\ frames[1].via = "async_wrapper"
    /\ frames[1].pc = "done"
    /\ frames[1].result = "TranscriptionError"
    /\ frames[1].invoked = 2
    /\ frames[1].returned = 0

\* An attempt of the decorated call of c begins in this step.
AttemptBegins(c) ==
    /\ frames[c].pc \in {"idle", "sleeping"}
    /\ frames'[c].via \in WrapperVias
    /\ frames'[c] # frames[c]

\* C32: the breaker of a name is one object for all concurrent callers:
\* the failing attempt of any caller adds 1 to its failure_count, whoever
\* made the failures counted before, and while it is OPEN and the timeout
\* has not elapsed the attempt of every caller is rejected without invoking
\* the operation, the caller's own attempts having failed or not.
C32_BreakerSharedByCallers ==
    /\ [][\A c \in Callers :
            Named /\ AttemptRaises(c)
                => /\ breaker'.failure_count = breaker.failure_count + 1
                   /\ breaker'.failure_count >= breaker.failure_threshold
                        => breaker'.state = "OPEN"]_vars
    /\ [][\A c \in Callers :
            Named /\ AttemptBegins(c) /\ breaker.state = "OPEN" /\ Elapsed <= breaker.timeout
                => /\ AttemptRejected(c)
                   /\ frames'[c].invoked = frames[c].invoked
                   /\ breaker' = breaker]_vars

C32_Witness ==
    /\ Named
    /\ breaker.failure_threshold = 2
    /\ breaker.failure_count = 2
    /\ breaker.state = "OPEN"
    /\ frames[1].via = "async_wrapper"
    /\ frames[1].invoked = 0
    /\ frames[1].raised = CircuitOpen
    /\ frames[2].via = "async_wrapper"
    /\ frames[2].invoked = 1
    /\ frames[2].raised \in OperationErrors
    /\ streak = 2

\* Request r is at a model call: messages.create is due and has not come back.
AtModelCall(r) == requests[r].pc = "model" /\ requests[r].turn < max_turns

\* Request r has a tool HTTP request out.
AtToolCall(r) == requests[r].pc = "awaiting"

\* A message of another conversation than that of r can be taken up now.
OthersProceed(r) ==
    ENABLED (\E k \in Requests \ {r}, u \in Users \ {requests[r].user} :
                Receive(k, u, MaxReceived))

\* A place and a message are left for another conversation.
RoomBeside(r) ==
    /\ received < MaxReceived
    /\ \E k \in Requests \ {r} : requests[k].pc = "idle"

\* C31: while the pipeline of one conversation waits at a model call or at
\* a tool HTTP call, a message of another conversation can be processed:
\* the wait of the one never holds the event loop against the other.
C31_SuspensionLetsOthersRun ==
    \A r \in Requests :
        (AtModelCall(r) \/ AtToolCall(r)) /\ RoomBeside(r) => OthersProceed(r)

\* The same of the tool calls alone, which do suspend the request.
ToolCallLetsOthersRun ==
    \A r \in Requests : AtToolCall(r) /\ RoomBeside(r) => OthersProceed(r)

\* Chat_with_tools of request r returns on a final response in this step.
ReturnsFinal(r) ==
    /\ requests[r].pc = "model"
    /\ requests'[r].pc = "returned"
    /\ requests'[r].response # None

IsTextBlock(b) == b.type = "text"

\* The texts of a sequence of text blocks, one after the other.
RECURSIVE Joined(_)
Joined(blocks) ==
    IF blocks = <<>> THEN <<>> ELSE blocks[1].text \o Joined(Tail(blocks))

\* C33: when the response of the model is final, chat_with_tools returns
\* the texts of its text blocks concatenated in the order of the response,
\* the other blocks giving nothing, and leaves its working history as it is.
C33_FinalTextReturned ==
    [][\A r \in Requests :
        ReturnsFinal(r)
            => /\ requests'[r].response.stop_reason # "tool_use"
               /\ requests'[r].result =
                        Joined(SelectSeq(requests'[r].response.content, IsTextBlock))
               /\ requests'[r].current_messages = requests[r].current_messages]_vars

C33_Witness ==
    /\ requests[1].pc = "returned"
    /\ requests[1].response # None
    /\ requests[1].response.stop_reason = "max_tokens"
    /\ requests[1].result = <<"a", "b">>
    /\ requests[1].turn = 1
    /\ Len(requests[1].current_messages) = 3

\* A tool-use turn of request r ends in this step.
ToolTurnEnds(r) == requests[r].pc = "tools" /\ requests'[r].pc = "model"

\* Chat_with_tools of request r takes a step.
LoopMoves(r) == InLoop(r) /\ requests'[r] # requests[r] /\ requests'[r].pc # "idle"

\* The texts the webhook can store as an assistant turn.
StoredTexts ==
    { TextContent(resp.content) : resp \in ModelResponses }
        \cup {Apology}
        \cup { FormatErrorForUser(e, "getting AI response") : e \in ModelErrors }

\* C36: a tool-use turn adds exactly two entries to the working history of
\* chat_with_tools, the assistant entry with the content of the response and
\* then the user entry with all its tool results; no step of chat_with_tools
\* changes the stored history; and every turn ever stored is the user turn of
\* a message or an assistant turn holding a text, at most one of each per
\* message.
C36_ToolTurnsStayLocal ==
    /\ [][\A r \in Requests :
            ToolTurnEnds(r)
                => LET q == requests[r]
                       m == requests'[r].current_messages
                       n == Len(q.current_messages)
                   IN  /\ Len(m) = n + 2
                       /\ SubSeq(m, 1, n) = q.current_messages
                       /\ m[n + 1].role = "assistant"
                       /\ m[n + 1].content = q.response.content
                       /\ m[n + 2].role = "user"
                       /\ m[n + 2].content = q.tool_results
                       /\ Len(q.tool_results) = Len(ToolUseBlocks(q.response.content))]_vars
    /\ [][\A r \in Requests :
            LoopMoves(r)
                => conversation_history' = conversation_history /\ appended' = appended]_vars
    /\ [](\A u \in Users :
            /\ \A i \in 1..Len(appended[u]) :
                    LET t == appended[u][i]
                    IN  \/ t = UserTurn(t.id)
                        \/ t.role = "assistant" /\ t.content \in StoredTexts
            /\ \A id \in 1..received :
                    Len(SelectSeq(appended[u], LAMBDA t : t.id = id)) <= 2)

C36_Witness ==
    /\ requests[1].pc = "tools"
    /\ requests[1].turn = 1
    /\ Len(requests[1].current_messages) = 3
    /\ requests[1].current_messages[2].role = "assistant"
    /\ requests[1].current_messages[3].role = "user"
    /\ Len(requests[1].current_messages[3].content) = 3
    /\ conversation_history[requests[1].user] = <<UserTurn(1)>>

\* initialize has built available_tools.
Initialized == call.fn = "initialize" /\ call.done

\* A Google token that _get_active_google_token can return is present.
GoogleCredentialPresent ==
    \E a \in {"unset", "work", "personal"} :
        ~Falsy(GetActiveGoogleToken(a, call.credentials.google))

\* The tools of the capabilities other than Google are registered exactly
\* when their credentials are present.
OtherToolsFollowCredentials ==
    Initialized
        => LET cred == call.credentials
               tools == call.result[1]
           IN  /\ "todoist" \in tools <=> ~Falsy(cred.todoist_token)
               /\ "google_maps" \in tools <=> ~Falsy(cred.google_maps_api_key)
               /\ "web_search" \in tools
                    <=> (/\ ~Falsy(cred.google_custom_search_api_key)
                         /\ ~Falsy(cred.google_custom_search_engine_id))

\* C34: the tools of a capability are registered at startup exactly when
\* its credentials resolved: the Gmail and the Calendar tools are registered
\* if and only if at least one Google token that token resolution can
\* return, work, personal or legacy, is present.
C34_GoogleToolsIffCredential ==
    Initialized
        => /\ "gmail" \in call.result[1] <=> GoogleCredentialPresent
           /\ "calendar" \in call.result[1] <=> GoogleCredentialPresent

====
